---- MODULE Spec2Model ----
(***************************************************************************)
(* Model of uni-price-polling (src/src/main.rs): one run of main, which    *)
(* reads the reserves of the user-supplied TOKEN/ETH pool and of the fixed *)
(* ETH/USDT pool from a node and prints the 2-hop price of TOKEN in USDT.  *)
(*                                                                         *)
(* Numbers.  A u128 reserve is m * 10^e, kept as [m, e].  An f64 is one of *)
(* zero, +infinity, NaN or a positive finite value (n/d) * 2^a * 5^b with  *)
(* n, d coprime to each other and to 10 (a canonical form, so that equal   *)
(* values are equal records).  The IEEE-754 rules for zero, infinity and   *)
(* NaN are kept; rounding to 53 bits is abstracted away: finite results    *)
(* are the exact rationals.  All values of the program are non-negative,   *)
(* and reserves below 2^112 scaled by 10^-16 / 10^-4 neither overflow nor  *)
(* underflow an f64.                                                       *)
(***************************************************************************)
EXTENDS Integers, Sequences, FiniteSets, TLC

VARIABLES pc, arg, chan, calls, ret, err, price, out

vars == <<pc, arg, chan, calls, ret, err, price, out>>

\* ------------------------------------------------------------------ bounds

\* Largest mantissa m of a reserve m * 10^e the node may report.
MaxMant == 2

\* Largest number of 32-byte words in a node's return data.
MaxWords == 4

\* Cap on the getReserves calls counted per pool (keeps the counter finite).
MaxCalls == 3

\* Decimal exponents e of the reserves m * 10^e the node may report.
ReserveExps == {4, 16}

\* Largest number of ASSET decimals considered when the price is compared
\* with the price under the token's true decimals.
MaxDecimals == 20

\* ------------------------------------------------------- program constants

\* reformat_wei divides by 10_f64.powf(16.0).
WEI_EXP == 16

\* reformat_usd divides by 10_f64.powf(4.0).
USD_EXP == 4

\* getReserves() returns (uint112 reserve0, uint112 reserve1, uint32
\* blockTimestampLast): three static words.
ABI_OUTPUTS == 3

Hops == {1, 2}

\* ------------------------------------------------------------ f64 numbers

RECURSIVE GCD(_, _)
GCD(x, y) == IF y = 0 THEN x ELSE GCD(y, x % y)

\* The exponent of the prime p in x > 0.
RECURSIVE Val(_, _)
Val(x, p) == IF x % p = 0 THEN 1 + Val(x \div p, p) ELSE 0

RECURSIVE Pow(_, _)
Pow(p, k) == IF k = 0 THEN 1 ELSE p * Pow(p, k - 1)

Zero == [c |-> "zero", n |-> 0, d |-> 1, a |-> 0, b |-> 0]
Inf == [c |-> "inf", n |-> 0, d |-> 1, a |-> 0, b |-> 0]
NaN == [c |-> "nan", n |-> 0, d |-> 1, a |-> 0, b |-> 0]

\* The finite positive value (n/d) * 2^a * 5^b in canonical form.
Fin(n, d, a, b) ==
    LET n2 == Val(n, 2)
        n5 == Val(n, 5)
        d2 == Val(d, 2)
        d5 == Val(d, 5)
        nn == n \div (Pow(2, n2) * Pow(5, n5))
        dd == d \div (Pow(2, d2) * Pow(5, d5))
        g == GCD(nn, dd)
    IN  [c |-> "fin", n |-> nn \div g, d |-> dd \div g,
         a |-> a + n2 - d2, b |-> b + n5 - d5]

\* 10_f64.powf(k)
Pow10F(k) == Fin(1, 1, k, k)

\* x / y on non-negative f64 values (IEEE-754).
FDiv(x, y) ==
    IF x.c = "nan" \/ y.c = "nan" THEN NaN
    ELSE IF x.c = "zero" THEN (IF y.c = "zero" THEN NaN ELSE Zero)
    ELSE IF x.c = "inf" THEN (IF y.c = "inf" THEN NaN ELSE Inf)
    ELSE IF y.c = "zero" THEN Inf
    ELSE IF y.c = "inf" THEN Zero
    ELSE Fin(x.n * y.d, x.d * y.n, x.a - y.a, x.b - y.b)

\* x * y on non-negative f64 values (IEEE-754).
FMul(x, y) ==
    IF x.c = "nan" \/ y.c = "nan" THEN NaN
    ELSE IF x.c = "zero" THEN (IF y.c = "inf" THEN NaN ELSE Zero)
    ELSE IF y.c = "zero" THEN (IF x.c = "inf" THEN NaN ELSE Zero)
    ELSE IF x.c = "inf" \/ y.c = "inf" THEN Inf
    ELSE Fin(x.n * y.n, x.d * y.d, x.a + y.a, x.b + y.b)

\* The literal 1.0
One == Fin(1, 1, 0, 0)

\* `w as f64` for the u128 w = m * 10^e.
AsF64(w) == IF w.m = 0 THEN Zero ELSE Fin(w.m, 1, w.e, w.e)

\* ------------------------------------------------------------ u128 words

U128(m, e) == [m |-> m, e |-> IF m = 0 THEN 0 ELSE e]

\* The reserves of the end-to-end scenario: 5_000_000 * 10^16,
\* 1000 * 10^16 and 2_000_000 * 10^4.
ScenarioToken == U128(5, 22)
ScenarioEth == U128(1, 19)
ScenarioUsdt == U128(2, 10)

U128s ==
    {U128(m, e) : m \in 0..MaxMant, e \in ReserveExps}
        \cup {ScenarioToken, ScenarioEth, ScenarioUsdt}

\* The word of blockTimestampLast (its value is discarded by main).
TsWord == U128(1, 0)

\* ------------------------------------------------------------ the node

\* Return data of k words: reserve0, reserve1, blockTimestampLast, and
\* further words when the contract at the address returns more.
ReturnData(k, r0, r1) ==
    SubSeq(<<r0, r1>> \o [j \in 1..MaxWords |-> TsWord], 1, k)

Responses == {ReturnData(k, r0, r1) : k \in 0..MaxWords, r0 \in U128s, r1 \in U128s}

\* A request slot of the HTTP provider, per pool: idle, pending (the
\* eth_call is sent), lost (the node will never answer), error (transport
\* or JSON-RPC error), data (return data received).
Slot(st, data) == [st |-> st, data |-> data]

Idle == Slot("idle", <<>>)

\* ------------------------------------------------------------ the program

NoReserve == U128(0, 0)

NoResult == [tag |-> "none", r0 |-> NoReserve, r1 |-> NoReserve, e |-> "none"]
Ok(r0, r1) == [tag |-> "Ok", r0 |-> r0, r1 |-> r1, e |-> "none"]
Err(e) == [tag |-> "Err", r0 |-> NoReserve, r1 |-> NoReserve, e |-> e]

NoPrice == [c |-> "none", n |-> 0, d |-> 1, a |-> 0, b |-> 0]

\* Decoding of the return data against the outputs of the abigen! binding
\* (uint112, uint112, uint32): each output is read from its 32-byte word,
\* a missing word is an error, words after the last output are not looked
\* at.
Decode(data) ==
    IF Len(data) < ABI_OUTPUTS THEN Err("Decode") ELSE Ok(data[1], data[2])

\* The value of get_reserves(provider, addr).await for a completed request.
GetReservesResult(slot) ==
    IF slot.st = "error" THEN Err("Rpc") ELSE Decode(slot.data)

\* AfterParse without the `?` on the --pool parse: an address is used anyway.
AfterParseUnchecked(a) ==
    CASE a = "absent" -> "usage_exit"
      [] OTHER -> "call1"

\* Args::parse() and `args.pool.parse()?`: where main goes for the --pool
\* argument given.  Without the argument clap prints the usage and exits
\* the process; an argument that is no address makes main return the error.
AfterParse(a) ==
    CASE a = "absent" -> "usage_exit"
      [] a = "invalid" -> "failed"
      [] OTHER -> "call1"

CallPc(i) == IF i = 1 THEN "call1" ELSE "call2"
AwaitPc(i) == IF i = 1 THEN "await1" ELSE "await2"

\* AfterFetch with the error of a fetch dropped instead of returned.
AfterFetchIgnoreErr(i, r) == IF i = 1 THEN "call2" ELSE "compose"

\* AfterFetch with a failed call issued again.
AfterFetchRetry(i, r) ==
    IF r.tag = "Err" THEN CallPc(i)
    ELSE IF i = 1 THEN "call2" ELSE "compose"

\* AfterFetch with the price composed as soon as one fetch is back.
AfterFetchNoJoin(i, r) == IF r.tag = "Err" THEN "failed" ELSE "compose"

\* `get_reserves(..).await?`: where main goes after the fetch of hop i.
AfterFetch(i, r) ==
    IF r.tag = "Err" THEN "failed"
    ELSE IF i = 1 THEN "call2" ELSE "compose"

\* reformat_wei with the 18 decimals of ETH, reformat_usd left as it is.
reformat_wei_18(wei_int) == FDiv(AsF64(wei_int), Pow10F(18))

reformat_wei(wei_int) == FDiv(AsF64(wei_int), Pow10F(WEI_EXP))

\* reformat_usd with the exponent of reformat_wei.
reformat_usd_as_wei(usd_int) == FDiv(AsF64(usd_int), Pow10F(WEI_EXP))

reformat_usd(usd_int) == FDiv(AsF64(usd_int), Pow10F(USD_EXP))

\* Bindings with the two slots of the first pool exchanged.
BindingsSwapped(r1, r2) == <<r1.r1, r1.r0, r2.r0, r2.r1>>

\* The bindings of lines 52-53: <<token_1, eth_1, eth_2, usdt_1>>.
Bindings(r1, r2) == <<r1.r0, r1.r1, r2.r0, r2.r1>>

\* Lines 57-63.
token_per_usdt(token_1, eth_1, eth_2, usdt_1) ==
    LET token_f64 == reformat_wei(token_1)
        eth_f64 == reformat_wei(eth_1)
        eth2_f64 == reformat_wei(eth_2)
        usdt_f64 == reformat_usd(usdt_1)
    IN  FDiv(One, FMul(FDiv(token_f64, eth_f64), FDiv(eth2_f64, usdt_f64)))

Terminal == {"done", "failed", "usage_exit"}

Init ==
    /\ pc = "start"
    /\ arg \in {"absent", "invalid", "valid"}
    /\ chan = [i \in Hops |-> Idle]
    /\ calls = [i \in Hops |-> 0]
    /\ ret = [i \in Hops |-> NoResult]
    /\ err = "none"
    /\ price = NoPrice
    /\ out = NoPrice

\* Lines 42-46: provider, Args::parse(), the two address parses.
ParseArgs ==
    /\ pc = "start"
    /\ pc' = AfterParse(arg)
    /\ err' = IF pc' = "failed" THEN "AddressParse" ELSE err
    /\ UNCHANGED <<arg, chan, calls, ret, price, out>>

\* Line 100: the read-only call to the pool of hop i is sent.
Issue(i) ==
    /\ pc = CallPc(i)
    /\ calls[i] < MaxCalls
    /\ calls' = [calls EXCEPT ![i] = @ + 1]
    /\ chan' = [chan EXCEPT ![i] = Slot("pending", <<>>)]
    /\ pc' = AwaitPc(i)
    /\ UNCHANGED <<arg, ret, err, price, out>>

\* The node answers the pending call with return data.
NodeRespond(i) ==
    /\ chan[i].st = "pending"
    /\ \E data \in Responses : chan' = [chan EXCEPT ![i] = Slot("data", data)]
    /\ UNCHANGED <<pc, arg, calls, ret, err, price, out>>

\* The call fails: the node is unreachable or answers with an error.
NodeError(i) ==
    /\ chan[i].st = "pending"
    /\ chan' = [chan EXCEPT ![i] = Slot("error", <<>>)]
    /\ UNCHANGED <<pc, arg, calls, ret, err, price, out>>

\* The node never answers the pending call.
NodeSilent(i) ==
    /\ chan[i].st = "pending"
    /\ chan' = [chan EXCEPT ![i] = Slot("lost", <<>>)]
    /\ UNCHANGED <<pc, arg, calls, ret, err, price, out>>

\* Lines 52, 53: the await of hop i completes and `?` is applied.
Complete(i) ==
    /\ pc = AwaitPc(i)
    /\ chan[i].st \in {"error", "data"}
    /\ ret' = [ret EXCEPT ![i] = GetReservesResult(chan[i])]
    /\ pc' = AfterFetch(i, ret'[i])
    /\ err' = IF ret'[i].tag = "Err" THEN ret'[i].e ELSE err
    /\ UNCHANGED <<arg, chan, calls, price, out>>

\* Lines 57-63.
Compose ==
    /\ pc = "compose"
    /\ LET b == Bindings(ret[1], ret[2])
       IN  price' = token_per_usdt(b[1], b[2], b[3], b[4])
    /\ pc' = "print"
    /\ UNCHANGED <<arg, chan, calls, ret, err, out>>

\* Lines 66-68: the price line is printed and main returns Ok(()).
PrintPrice ==
    /\ pc = "print"
    /\ out' = price
    /\ pc' = "done"
    /\ UNCHANGED <<arg, chan, calls, ret, err, price>>

Next ==
    \/ ParseArgs
    \/ \E i \in Hops : Issue(i)
    \/ \E i \in Hops : NodeRespond(i)
    \/ \E i \in Hops : NodeError(i)
    \/ \E i \in Hops : NodeSilent(i)
    \/ \E i \in Hops : Complete(i)
    \/ Compose
    \/ PrintPrice

Spec == Init /\ [][Next]_vars

\* Every step that is enabled is eventually taken: the runtime polls main,
\* and a node that answers does so in finite time.
FairSpec == Init /\ [][Next]_vars /\ WF_vars(Next)

\* ------------------------------------------------------------ properties

BothOk == ret[1].tag = "Ok" /\ ret[2].tag = "Ok"

Printed == out # NoPrice

token_1 == ret[1].r0
eth_1 == ret[1].r1
eth_2 == ret[2].r0
usdt_1 == ret[2].r1

AnyZero == \E w \in {token_1, eth_1, eth_2, usdt_1} : w.m = 0

\* The exact rational (p * q * 10^12) / (r * s) of non-zero p, q, r, s.
Ratio12(p, q, r, s) ==
    Fin(p.m * q.m, r.m * s.m,
        p.e + q.e - r.e - s.e + 12, p.e + q.e - r.e - s.e + 12)

\* The cross rate of the specification, 1 / ((t/e1) * (e2/u)), each reserve
\* divided by 10^decimals of its own side.
PriceWithDecimals(dt, de1, de2, du, t, e1, e2, u) ==
    FDiv(One,
         FMul(FDiv(FDiv(AsF64(t), Pow10F(dt)), FDiv(AsF64(e1), Pow10F(de1))),
              FDiv(FDiv(AsF64(e2), Pow10F(de2)), FDiv(AsF64(u), Pow10F(du)))))

\* C1: a fetch that returned an error ends the run with that error, no
\* price computed or printed; a price is printed only when both fetches
\* returned Ok.
FailFast ==
    /\ \A i \in Hops :
          ret[i].tag = "Err" =>
              pc = "failed" /\ err = ret[i].e /\ price = NoPrice /\ ~Printed
    /\ Printed => BothOk

\* C1 witness: the second fetch failed after the first succeeded.
FailFastWitness ==
    ret[1].tag = "Ok" /\ ret[2].tag = "Err" /\ pc = "failed" /\ ~Printed

\* C2: when both fetches succeed and one of the four reserves is zero, the
\* run fails with ZeroReserve and outputs no price.
ZeroReserveRejected ==
    (BothOk /\ AnyZero) =>
        /\ ~Printed
        /\ pc \in Terminal => err = "ZeroReserve"

\* C3: for non-zero reserves the printed price is (e1 * u * 10^12) / (t * e2),
\* and the reserves of the end-to-end scenario print 0.4.
PriceFormula ==
    (pc = "done" /\ ~AnyZero) =>
        /\ out = Ratio12(eth_1, usdt_1, token_1, eth_2)
        /\ (/\ token_1 = ScenarioToken
            /\ eth_1 = ScenarioEth
            /\ eth_2 = ScenarioEth
            /\ usdt_1 = ScenarioUsdt) => out = Fin(4, 10, 0, 0)

\* C3 witness: the end-to-end scenario has printed 0.4.
PriceFormulaWitness ==
    /\ pc = "done"
    /\ token_1 = ScenarioToken /\ eth_1 = ScenarioEth
    /\ eth_2 = ScenarioEth /\ usdt_1 = ScenarioUsdt
    /\ out = Fin(2, 5, 0, 0)

\* C4: every run of main eventually terminates, with a price or an error,
\* also when the node never answers a call.
Terminates == <>(pc \in Terminal)

\* C5: return data that is not exactly the three words of (reserve0,
\* reserve1, blockTimestampLast) makes get_reserves return an error, and no
\* price is printed.
DecodeShapeRejected ==
    \A i \in Hops :
        (chan[i].st = "data" /\ Len(chan[i].data) # ABI_OUTPUTS) =>
            /\ ret[i].tag # "Ok"
            /\ ~Printed

\* C6: at most one getReserves call is issued to each pool, a failed call
\* is not issued again, and a run that prints a price has issued exactly
\* one call to each pool.
NoRetry ==
    /\ \A i \in Hops : calls[i] <= 1
    /\ \A i \in Hops : ret[i].tag # "none" => calls[i] = 1
    /\ Printed => calls[1] = 1 /\ calls[2] = 1

\* C6 witness: a call has failed and the run is over with one call issued.
NoRetryWitness ==
    ret[1].tag = "Err" /\ pc = "failed" /\ calls[1] = 1 /\ calls[2] = 0

\* C7: a price is composed or printed only after both fetches have
\* completed with Ok; no fetch is un-issued or outstanding then.
JoinBeforeCompose ==
    (pc \in {"compose", "print"} \/ price # NoPrice \/ Printed) =>
        /\ BothOk
        /\ \A i \in Hops : chan[i].st = "data" /\ calls[i] = 1

\* C7 witness: the composition step is about to run.
JoinBeforeComposeWitness == pc = "compose" /\ BothOk /\ price = NoPrice

\* C8: the printed price is the price under the exponents 18/18/18/6, and
\* under every common shift of the four exponents; for an ASSET of d
\* decimals the true price is the output times 10^(d-18), so the output is
\* the true price only for d = 18.
ExponentOffsetInvariance ==
    (pc = "done" /\ ~AnyZero) =>
        /\ out = PriceWithDecimals(18, 18, 18, 6, token_1, eth_1, eth_2, usdt_1)
        /\ \A k \in 0..MaxDecimals :
              out = PriceWithDecimals(k + 12, k + 12, k + 12, k,
                                      token_1, eth_1, eth_2, usdt_1)
        /\ \A d \in 0..MaxDecimals :
              LET truePrice == PriceWithDecimals(d, 18, 18, 6,
                                            token_1, eth_1, eth_2, usdt_1)
              IN  /\ truePrice = FMul(out, Pow10F(d - 18))
                  /\ (d # 18) => out # truePrice

\* C8 witness: a price of non-zero reserves is printed.
ExponentOffsetWitness ==
    pc = "done" /\ ~AnyZero /\ out.c = "fin" /\ token_1 # eth_1

\* C9: with a --pool argument that is no address, main returns the parse
\* error with no call issued to either pool and no price printed.
InvalidPoolNoCall ==
    arg = "invalid" =>
        /\ \A i \in Hops : calls[i] = 0 /\ chan[i] = Idle /\ ret[i] = NoResult
        /\ ~Printed /\ price = NoPrice
        /\ pc \in {"start", "failed"}
        /\ pc = "failed" => err = "AddressParse"

\* C9 witness: main has returned the parse error.
InvalidPoolWitness ==
    arg = "invalid" /\ pc = "failed" /\ err = "AddressParse"

\* C10: slot 0 / slot 1 of the first pool are always ASSET / INTERMEDIATE
\* and slot 0 / slot 1 of the fixed pool INTERMEDIATE / REFERENCE, whatever
\* the argument: the output is (e1*u)/(t*e2) * 10^12, the same pools with
\* the first pool's reserves exchanged give (t*u)/(e1*e2) * 10^12, and the
\* two differ unless t = e1.
FixedSlotOrientation ==
    (pc = "done" /\ ~AnyZero) =>
        LET b == Bindings(Ok(eth_1, token_1), ret[2])
            swapped == token_per_usdt(b[1], b[2], b[3], b[4])
        IN  /\ Bindings(ret[1], ret[2]) = <<ret[1].r0, ret[1].r1, ret[2].r0, ret[2].r1>>
            /\ out = Ratio12(ret[1].r1, ret[2].r1, ret[1].r0, ret[2].r0)
            /\ swapped = Ratio12(ret[1].r0, ret[2].r1, ret[1].r1, ret[2].r0)
            /\ (AsF64(token_1) # AsF64(eth_1)) => swapped # out

\* C10 witness: a price is printed for a first pool whose reserves differ.
FixedSlotWitness ==
    pc = "done" /\ ~AnyZero /\ AsF64(token_1) # AsF64(eth_1)

====
